---- MODULE Spec2Model ----
(***************************************************************************)
(* Model of src-tauri/src/lib.rs of ghttpping-tauri: the two Tauri         *)
(* commands environment_check and ping_http_dual and the helpers they      *)
(* call.  Options are sequences (<<>> is None, <<x>> is Some(x)); a        *)
(* Result is a record with field ok and either val or err.  Strings of     *)
(* the program whose characters matter (URLs, host names, curl's output)   *)
(* are sequences of one-character strings.  Japanese message texts are     *)
(* rendered as ASCII tags, listed next to the line that builds them.       *)
(***************************************************************************)
EXTENDS Integers, Sequences, FiniteSets, TLC

VARIABLES
    epc,        \* position of environment_check
    result,     \* the EnvironmentCheckResult under construction
    fpc,        \* position inside the running fetch_global_ip_info call
    attempts,   \* curl.exe runs (arguments, outcome) of the current/last fetch_global_ip_info call
    fetchRet,   \* return value of the last fetch_global_ip_info call (Option)
    dpc,        \* position inside get_dns_servers_async
    dnsInv,     \* value the timeout(...).await of the DNS-server inventory evaluated to (Option)
    strategies, \* blocking tasks started by get_dns_servers_async, in order, each with its outcome (Option)
    steps,      \* steps of environment_check executed so far, in order
    envRet      \* return value of environment_check (Option)

envVars == <<epc, result, fpc, attempts, fetchRet, dpc, dnsInv, strategies, steps, envRet>>

VARIABLES
    ppc,          \* position of ping_http_dual
    call,         \* arguments of the current ping_http_dual call
    parsed,       \* host and port taken from the parsed URL
    warned,       \* log_security_warning was called in this run
    lookups,      \* outcomes of lookup_host in this run, in order
    dns_result,   \* the DnsResolution of this run
    fut,          \* the two connect_to_ip_with_host futures under tokio::join!
    spawned,      \* curl.exe processes started in this run, in order
    pingRet,      \* return value of ping_http_dual (Option)
    seen          \* one family result of an earlier run, kept for comparison (Option)

pingVars == <<ppc, call, parsed, warned, lookups, dns_result, fut, spawned, pingRet, seen>>

VARIABLES
    input,        \* what a command printed, given to one of the parsing functions
    output        \* what that function returned (Option)

parseVars == <<input, output>>

Ok(v)  == [ok |-> TRUE, val |-> v]
Err(e) == [ok |-> FALSE, err |-> e]

----------------------------------------------------------------------------
(* environment_check: outcomes of the collaborators it calls *)

\* get_network_interfaces: launch failure, non-zero exit, or a list of adapters
AdapterLists ==
    { <<>>,
      << [name |-> "Ethernet", ip_addresses |-> <<"192.0.2.10">>,
          has_ipv4 |-> TRUE, has_ipv6 |-> FALSE,
          has_ipv4_global |-> TRUE, has_ipv6_global |-> FALSE] >> }

NetworkInterfacesOutcomes ==
    { Err("PowerShellLaunchFailed"),        \* "PowerShellコマンド実行失敗: {}"
      Err("AdapterQueryFailed") }           \* "ネットワークアダプタの取得に失敗しました"
    \cup { Ok(a) : a \in AdapterLists }

\* body of the echo service's answer, as serde_json sees it
JsonBodies ==
    { [kind |-> "object", fields |-> {"client_host", "datetime_jst"}],
      [kind |-> "object", fields |-> {"client_host"}],
      [kind |-> "text",   fields |-> {}] }

\* one run of curl.exe by fetch_global_ip_info
EgressCurlOutcomes ==
    { [launched |-> FALSE, exit |-> 0, stdout |-> [kind |-> "text", fields |-> {}]],
      [launched |-> TRUE,  exit |-> 60, stdout |-> [kind |-> "text", fields |-> {}]] }
    \cup { [launched |-> TRUE, exit |-> 0, stdout |-> b] : b \in JsonBodies }

\* tokio::net::lookup_host("example.com:80"): error or number of addresses
ControlLookupOutcomes == { Err("lookup"), Ok(0), Ok(1) }

DnsServerLists ==
    { <<>>,
      << [interface_alias |-> "Ethernet",
          ipv4_dns_servers |-> <<"192.0.2.53">>,
          ipv6_dns_servers |-> <<>>] >> }

\* parse_dns_from_ipconfig as seen by its caller; join |-> FALSE is a JoinError
IpconfigOutcomes ==
    { [join |-> FALSE, res |-> Err("join")],
      [join |-> TRUE,  res |-> Err("IpconfigLaunchFailed")],   \* "ipconfig コマンド実行失敗: {}"
      [join |-> TRUE,  res |-> Err("IpconfigFailed")] }        \* "DNS サーバ情報の取得に失敗しました"
    \cup { [join |-> TRUE, res |-> Ok(l)] : l \in DnsServerLists }

\* get_dns_servers_from_powershell as seen by its caller: never Ok(<<>>)
PowershellOutcomes ==
    { [join |-> FALSE, res |-> Err("join")],
      [join |-> TRUE,  res |-> Err("PowerShellLaunchFailed")],
      [join |-> TRUE,  res |-> Err("DnsQueryFailed")],         \* "DNSサーバ情報の取得に失敗しました"
      [join |-> TRUE,  res |-> Err("NoDnsFromPowerShell")] }   \* "PowerShell から DNS 情報を取得できませんでした"
    \cup { [join |-> TRUE, res |-> Ok(l)] : l \in DnsServerLists \ {<<>>} }

----------------------------------------------------------------------------
(* environment_check *)

PushFront(r, text, detail) ==
    [r EXCEPT !.error_messages = <<[text |-> text, detail |-> detail]>> \o @]

Push(r, text, detail) ==
    [r EXCEPT !.error_messages = Append(@, [text |-> text, detail |-> detail])]

InitialResult ==
    [adapters |-> <<>>, ipv4_connectivity |-> FALSE, ipv6_connectivity |-> FALSE,
     dns_resolution |-> FALSE, internet_available |-> FALSE,
     ipv4_global_ip |-> <<>>, ipv6_global_ip |-> <<>>,
     dns_servers |-> <<>>, error_messages |-> <<>>]

\* step 1: get_network_interfaces and its match
GetNetworkInterfaces ==
    /\ epc = "adapters"
    /\ \E out \in NetworkInterfacesOutcomes :
          result' = IF out.ok THEN [result EXCEPT !.adapters = out.val]
                    ELSE Push(result, "AdaptersFailed", out.err)   \* "ネットワークアダプタの取得に失敗: {}"
    /\ epc' = "ipv4"
    /\ steps' = Append(steps, "adapters")
    /\ UNCHANGED <<fpc, attempts, fetchRet, dpc, dnsInv, strategies, envRet>>
    /\ UNCHANGED pingVars
    /\ UNCHANGED parseVars

EgressUrl(fam) ==
    IF fam = "ipv4" THEN "https://getipv4.0nyx.net/json" ELSE "https://getipv6.0nyx.net/json"

EgressTimeoutSecs == 2

CurlArgs(insecure, url) ==
    [silent |-> TRUE, insecure |-> insecure, max_time |-> EgressTimeoutSecs, url |-> url]

\* serde_json::from_str::<IpResponse>: both fields must be there
ParseIpResponse(body) ==
    IF body.kind = "object" /\ {"client_host", "datetime_jst"} \subseteq body.fields
    THEN Ok([client_host |-> "203.0.113.7", datetime_jst |-> "2025-01-01 00:00:00"])
    ELSE Err("JsonParseFailed")                                   \* "JSON解析失敗: {}"

NeedsFallbackAlways(out) == TRUE

\* !output.status.success(): the first curl.exe ran and exited non-zero
NeedsFallback(out) == out.exit # 0

OnIpv4ReturnInfoOnly(r, ret) ==
    IF ret.ok
    THEN [r EXCEPT !.ipv4_global_ip = <<ret.val>>]
    ELSE Push([r EXCEPT !.ipv4_connectivity = FALSE], "Ipv4GlobalIpFailed", ret.err)

\* the match on the v4 call's return value
OnIpv4Return(r, ret) ==
    IF ret.ok
    THEN [r EXCEPT !.ipv4_connectivity = TRUE, !.ipv4_global_ip = <<ret.val>>]
    ELSE Push([r EXCEPT !.ipv4_connectivity = FALSE], "Ipv4GlobalIpFailed", ret.err)  \* "IPv4グローバルIP取得に失敗: {}"

OnIpv6ReturnUnsuppressed(r, ret) ==
    IF ret.ok
    THEN [r EXCEPT !.ipv6_connectivity = TRUE, !.ipv6_global_ip = <<ret.val>>]
    ELSE Push([r EXCEPT !.ipv6_connectivity = FALSE], "Ipv6GlobalIpFailed", ret.err)

\* the match on the v6 call's return value
OnIpv6Return(r, ret) ==
    IF ret.ok
    THEN [r EXCEPT !.ipv6_connectivity = TRUE, !.ipv6_global_ip = <<ret.val>>]
    ELSE IF ~r.ipv4_connectivity
         THEN Push([r EXCEPT !.ipv6_connectivity = FALSE], "Ipv6GlobalIpFailed", ret.err)  \* "IPv6グローバルIP取得に失敗: {}"
         ELSE [r EXCEPT !.ipv6_connectivity = FALSE]

\* fetch_global_ip_info returns ret to environment_check, which matches on it
FetchReturn(ret) ==
    /\ fetchRet' = <<ret>>
    /\ fpc' = "returned"
    /\ result' = IF epc = "ipv4" THEN OnIpv4Return(result, ret) ELSE OnIpv6Return(result, ret)
    /\ epc' = IF epc = "ipv4" THEN "ipv6" ELSE "dns"
    /\ steps' = Append(steps, epc)

\* fetch_global_ip_info, first curl.exe (TLS verified)
FetchFirstAttempt ==
    /\ epc \in {"ipv4", "ipv6"}
    /\ fpc \in {"idle", "returned"}
    /\ \E out \in EgressCurlOutcomes :
       /\ attempts' = << [args |-> CurlArgs(FALSE, EgressUrl(epc)), out |-> out] >>
       /\ IF ~out.launched
          THEN FetchReturn(Err("CurlLaunchFailed"))               \* "curl実行失敗: {}"
          ELSE IF NeedsFallback(out)
               THEN /\ fpc' = "fallback"
                    /\ fetchRet' = <<>>
                    /\ UNCHANGED <<epc, result, steps>>
               ELSE FetchReturn(ParseIpResponse(out.stdout))
    /\ UNCHANGED <<dpc, dnsInv, strategies, envRet>>
    /\ UNCHANGED pingVars
    /\ UNCHANGED parseVars

\* fetch_global_ip_info, second curl.exe (-k)
FetchFallbackAttempt ==
    /\ epc \in {"ipv4", "ipv6"}
    /\ fpc = "fallback"
    /\ \E out \in EgressCurlOutcomes :
       /\ attempts' = Append(attempts, [args |-> CurlArgs(TRUE, EgressUrl(epc)), out |-> out])
       /\ IF ~out.launched
          THEN FetchReturn(Err("CurlFallbackLaunchFailed"))       \* "curl実行失敗(フォールバック): {}"
          ELSE IF out.exit # 0
               THEN FetchReturn(Err("BothAttemptsFailed"))        \* "グローバルIP取得失敗（TLS検証有無両方失敗）"
               ELSE FetchReturn(ParseIpResponse(out.stdout))
    /\ UNCHANGED <<dpc, dnsInv, strategies, envRet>>
    /\ UNCHANGED pingVars
    /\ UNCHANGED parseVars

\* check_dns_resolution: never an Err
check_dns_resolution(lookup) ==
    IF lookup.ok THEN Ok(lookup.val > 0) ELSE Ok(FALSE)

\* step 4: check_dns_resolution and its match; then get_dns_servers_async starts strategy A
CheckDnsResolution ==
    /\ epc = "dns"
    /\ \E lookup \in ControlLookupOutcomes :
          LET r == check_dns_resolution(lookup) IN
          result' = IF r.ok THEN [result EXCEPT !.dns_resolution = r.val]
                    ELSE Push(result, "DnsCheckFailed", r.err)     \* "DNS解決確認に失敗: {}"
    /\ epc' = "dns_servers"
    /\ dpc' = "ipconfig"
    /\ strategies' = << [task |-> "ipconfig", out |-> <<>>] >>
    /\ steps' = Append(steps, "dns")
    /\ UNCHANGED <<fpc, attempts, fetchRet, dnsInv, envRet>>
    /\ UNCHANGED pingVars
    /\ UNCHANGED parseVars

InternetAvailableNoDns(r) ==
    r.ipv4_connectivity \/ r.ipv6_connectivity

InternetAvailable(r) ==
    (r.ipv4_connectivity \/ r.ipv6_connectivity) /\ r.dns_resolution

\* the match on timeout(...).await
OnDnsInventory(r, inv) ==
    IF inv.timeout
    THEN Push(r, "DnsServersTimeout", "")                          \* "DNSサーバ情報取得がタイムアウトしました"
    ELSE IF inv.res.ok
         THEN [r EXCEPT !.dns_servers = inv.res.val]
         ELSE Push(r, "DnsServersFailed", inv.res.err)             \* "DNSサーバ情報取得に失敗: {}"

\* the rest of environment_check once timeout(...).await has a value
Finish(inv) ==
    LET r == OnDnsInventory(result, inv) IN
    /\ dnsInv' = <<inv>>
    /\ result' = [r EXCEPT !.internet_available = InternetAvailable(r)]
    /\ envRet' = << Ok([r EXCEPT !.internet_available = InternetAvailable(r)]) >>
    /\ epc' = "done"
    /\ dpc' = "returned"
    /\ steps' = Append(steps, "dns_servers")

AfterIpconfigWhenEmpty(out) ==
    IF out.join /\ out.res.ok /\ out.res.val = <<>> THEN <<out.res>> ELSE <<>>

AfterIpconfigPropagating(out) ==
    IF out.join /\ (~out.res.ok \/ out.res.val # <<>>) THEN <<out.res>> ELSE <<>>

\* the match on the ipconfig task: Some(r) when get_dns_servers_async returns r
\* at once, None when it goes on to the PowerShell task
AfterIpconfig(out) ==
    IF out.join /\ out.res.ok /\ out.res.val # <<>> THEN <<out.res>> ELSE <<>>

\* get_dns_servers_async: the ipconfig task completes
IpconfigDone ==
    /\ epc = "dns_servers"
    /\ dpc = "ipconfig"
    /\ \E out \in IpconfigOutcomes :
          IF AfterIpconfig(out) # <<>>
          THEN /\ Finish([timeout |-> FALSE, res |-> AfterIpconfig(out)[1]])
               /\ strategies' = [strategies EXCEPT ![1].out = <<out>>]
          ELSE /\ dpc' = "powershell"
               /\ strategies' = Append([strategies EXCEPT ![1].out = <<out>>],
                                       [task |-> "powershell", out |-> <<>>])
               /\ UNCHANGED <<epc, result, dnsInv, steps, envRet>>
    /\ UNCHANGED <<fpc, attempts, fetchRet>>
    /\ UNCHANGED pingVars
    /\ UNCHANGED parseVars

\* get_dns_servers_async: the PowerShell task completes
PowershellDone ==
    /\ epc = "dns_servers"
    /\ dpc = "powershell"
    /\ \E out \in PowershellOutcomes :
          /\ Finish([timeout |-> FALSE,
                     res |-> IF out.join THEN out.res ELSE Err("DnsThreadError")])  \* "DNSサーバ取得スレッドエラー"
          /\ strategies' = [strategies EXCEPT ![2].out = <<out>>]
    /\ UNCHANGED <<fpc, attempts, fetchRet>>
    /\ UNCHANGED pingVars
    /\ UNCHANGED parseVars

\* the 5 second timer fires while a blocking task is awaited
DnsServersTimeout ==
    /\ epc = "dns_servers"
    /\ dpc \in {"ipconfig", "powershell"}
    /\ Finish([timeout |-> TRUE, res |-> Err("elapsed")])
    /\ UNCHANGED <<fpc, attempts, fetchRet, strategies>>
    /\ UNCHANGED pingVars
    /\ UNCHANGED parseVars

----------------------------------------------------------------------------
(* ping_http_dual: strings, validation, URL parsing *)

HttpPrefix  == <<"h", "t", "t", "p", ":", "/", "/">>
HttpsPrefix == <<"h", "t", "t", "p", "s", ":", "/", "/">>

StartsWith(s, p) == Len(s) >= Len(p) /\ SubSeq(s, 1, Len(p)) = p

Contains(s, x) == \E i \in 1..Len(s) : s[i] = x

Repeat(c, n) == [i \in 1..n |-> c]

\* index of the first element of s that is in set, Len(s) + 1 when there is none
First(s, set) ==
    LET I == { i \in 1..Len(s) : s[i] \in set } IN
    IF I = {} THEN Len(s) + 1 ELSE CHOOSE i \in I : \A j \in I : i <= j

Whitespace == {" ", "\n", "\r", "\t"}

\* str::trim
Trim(s) ==
    LET K == { i \in 1..Len(s) : s[i] \notin Whitespace } IN
    IF K = {} THEN <<>>
    ELSE SubSeq(s, CHOOSE i \in K : \A j \in K : i <= j,
                   CHOOSE i \in K : \A j \in K : i >= j)

Digits == {"0", "1", "2", "3", "4", "5", "6", "7", "8", "9"}

DigitVal(c) ==
    CASE c = "0" -> 0 [] c = "1" -> 1 [] c = "2" -> 2 [] c = "3" -> 3 [] c = "4" -> 4
      [] c = "5" -> 5 [] c = "6" -> 6 [] c = "7" -> 7 [] c = "8" -> 8 [] c = "9" -> 9

U16Max == 65535

RECURSIVE Decimal(_, _)
\* value of a string of digits on top of acc, U16Max + 1 once it no longer fits
Decimal(s, acc) ==
    IF s = <<>> THEN acc
    ELSE LET n == acc * 10 + DigitVal(Head(s)) IN
         IF n > U16Max THEN U16Max + 1 ELSE Decimal(Tail(s), n)

DecimalU16(s) ==
    IF s = <<>> \/ (\E i \in 1..Len(s) : s[i] \notin Digits) \/ Decimal(s, 0) > U16Max
    THEN Err("ParseIntError")
    ELSE Ok(Decimal(s, 0))

\* str::parse::<u16>: an optional '+', then digits, no overflow
ParseU16(s) ==
    IF s # <<>> /\ Head(s) = "+" THEN DecimalU16(Tail(s)) ELSE DecimalU16(s)

MaxUrlLen == 2048

validate_url(url) ==
    IF Len(url) = 0 \/ Len(url) > MaxUrlLen
    THEN Err("UrlEmptyOrTooLong")       \* "URLが空またはサイズが大きすぎます"
    ELSE IF ~StartsWith(url, HttpPrefix) /\ ~StartsWith(url, HttpsPrefix)
         THEN Err("UrlBadScheme")       \* "URLは http:// または https:// で始まる必要があります"
         ELSE Ok(TRUE)

MaxHostLen == 255

\* the grave accent U+0060, which cannot be written inside a TLA+ string
Grave == "U+0060"

DangerousChars == {"$", Grave, "|", "&", ";", ">", "<", "(", ")"}

validate_hostname_length_only(host) ==
    IF Len(host) = 0 \/ Len(host) > MaxHostLen THEN Err("HostInvalid") ELSE Ok(TRUE)

validate_hostname(host) ==
    IF Len(host) = 0 \/ Len(host) > MaxHostLen
    THEN Err("HostInvalid")             \* "ホスト名が無効です"
    ELSE IF \E c \in DangerousChars : Contains(host, c)
         THEN Err("HostBadChars")       \* "ホスト名に無効な文字が含まれています"
         ELSE Ok(TRUE)

\* what follows "http://" or "https://" up to the path, query or fragment
Authority(url) ==
    LET rest == SubSeq(url, IF StartsWith(url, HttpsPrefix) THEN 9 ELSE 8, Len(url)) IN
    SubSeq(rest, 1, First(rest, {"/", "?", "#"}) - 1)

HostText(url) == SubSeq(Authority(url), 1, First(Authority(url), {":"}) - 1)

PortText(url) == SubSeq(Authority(url), First(Authority(url), {":"}) + 1, Len(Authority(url)))

\* code points the url crate refuses in the host of an http(s) URL
ForbiddenHostChars == {" ", "#", "%", "/", ":", "<", ">", "?", "@", "[", "\\", "]", "^", "|"}

is_https(url) == StartsWith(url, <<"h", "t", "t", "p", "s">>)

\* Url::parse, host_str and port of a URL that passed validate_url
\* (userinfo and IPv6 literals are not among the inputs)
UrlParse(url) ==
    LET host == HostText(url)
        port == PortText(url)
    IN  IF host = <<>> THEN Err("EmptyHost")
        ELSE IF \E i \in 1..Len(host) : host[i] \in ForbiddenHostChars THEN Err("InvalidDomainCharacter")
        ELSE IF port # <<>> /\ ~DecimalU16(port).ok THEN Err("InvalidPort")
        ELSE Ok([host_str |-> <<host>>,
                 port |-> IF port = <<>> \/ DecimalU16(port).val = (IF is_https(url) THEN 443 ELSE 80)
                          THEN <<>> ELSE <<DecimalU16(port).val>>])

\* ping_http_dual up to the call of resolve_dns: Err(e) is returned to the caller
Validate(url) ==
    LET v == validate_url(url) IN
    IF ~v.ok THEN v
    ELSE LET p == UrlParse(url) IN
         IF ~p.ok THEN Err("InvalidUrl")                    \* "無効なURL: {}"
         ELSE IF p.val.host_str = <<>> THEN Err("NoHostInUrl")  \* "URLからホスト名を抽出できません"
         ELSE LET h == validate_hostname(p.val.host_str[1]) IN
              IF ~h.ok THEN h
              ELSE Ok([host |-> p.val.host_str[1], port |-> p.val.port])

----------------------------------------------------------------------------
(* ping_http_dual: inputs *)

Families == {"ipv4", "ipv6"}

UrlHttp     == HttpPrefix \o <<"a">>
UrlHttps    == HttpsPrefix \o <<"a">>
UrlPort     == HttpsPrefix \o <<"a", ":", "8", "4", "4", "3", "/">>
UrlFtp      == <<"f", "t", "p", ":", "/", "/", "b", "a", "d">>
UrlNoHost   == HttpPrefix \o <<"/">>
UrlTooLong  == HttpPrefix \o <<"a", "/">> \o Repeat("a", MaxUrlLen - 8)
UrlLongHost == HttpsPrefix \o Repeat("a", MaxHostLen + 1)

ValidUrls == { UrlHttp, UrlHttps, UrlPort }

Urls ==
    ValidUrls
    \cup { <<>>, UrlFtp, UrlNoHost, UrlTooLong, UrlLongHost }
    \cup { HttpPrefix \o <<"a", c>> : c \in DangerousChars }

\* socket addresses lookup_host can yield; text is what to_string() gives
AddrPool == { [v |-> 4, text |-> "192.0.2.1"], [v |-> 6, text |-> "2001:db8::1"] }

\* str::contains(':') on the text of an address
HasColon(text) == text \in { a.text : a \in { b \in AddrPool : b.v = 6 } }

MaxAddrs == 2

LookupOutcomes ==
    { Err("lookup") } \cup { Ok(s) : s \in UNION { [1..n -> AddrPool] : n \in 0..MaxAddrs } }

\* one run of curl.exe by perform_curl_request
ProbeCurlOutcomes ==
    { [launched |-> FALSE, exit |-> 0, stdout |-> <<>>, stderr |-> <<>>],
      [launched |-> TRUE, exit |-> 7, stdout |-> <<"0", "0", "0">>, stderr |-> <<" ", "r", "e", "f", "u", "s", "e", "d", "\n">>],
      [launched |-> TRUE, exit |-> 0, stdout |-> <<>>, stderr |-> <<>>],
      [launched |-> TRUE, exit |-> 0, stdout |-> <<"o", "k">>, stderr |-> <<>>],
      [launched |-> TRUE, exit |-> 0, stdout |-> <<"1", "9", "9">>, stderr |-> <<>>],
      [launched |-> TRUE, exit |-> 0, stdout |-> <<"2", "0", "0">>, stderr |-> <<"*", " ", "o", "k">>],
      [launched |-> TRUE, exit |-> 0, stdout |-> <<"2", "9", "9", "\n">>, stderr |-> <<>>],
      [launched |-> TRUE, exit |-> 0, stdout |-> <<"3", "0", "0">>, stderr |-> <<>>] }

\* start.elapsed().as_millis()
ElapsedMs == {12, 10000}

----------------------------------------------------------------------------
(* ping_http_dual *)

EmptyResolution == [ipv4_addresses |-> <<>>, ipv6_addresses |-> <<>>]

RECURSIVE Collect(_, _, _)
\* the texts of the addresses of family v, in order, each once
Collect(addrs, v, acc) ==
    IF addrs = <<>> THEN acc
    ELSE LET ip_str == Head(addrs).text IN
         Collect(Tail(addrs), v,
                 IF Head(addrs).v = v /\ ~Contains(acc, ip_str) THEN Append(acc, ip_str) ELSE acc)

resolve_dns(lookup) ==
    IF lookup.ok
    THEN [ipv4_addresses |-> Collect(lookup.val, 4, <<>>),
          ipv6_addresses |-> Collect(lookup.val, 6, <<>>)]
    ELSE EmptyResolution

Message(text, code, detail) == [text |-> text, code |-> code, detail |-> detail]

NoAddressResultSilent(original_url) ==
    [url |-> original_url, ip_address |-> <<>>, status_code |-> <<>>,
     response_time_ms |-> <<>>, success |-> FALSE,
     error_message |-> <<>>, verbose_log |-> <<>>]

\* connect_to_ip_with_host when ip_addresses is empty
NoAddressResult(original_url) ==
    [url |-> original_url, ip_address |-> <<>>, status_code |-> <<>>,
     response_time_ms |-> <<>>, success |-> FALSE,
     error_message |-> << IF is_https(original_url)
                          THEN Message("NoIpv6Address", 0, <<>>)     \* "IPv6アドレスが見つかりません"
                          ELSE Message("NoIpv4Address", 0, <<>>) >>, \* "IPv4アドレスが見つかりません"
     verbose_log |-> <<>>]

\* the arguments perform_curl_request gives curl.exe
ProbeArgs(original_url, ip_address, host, ignore_tls_errors, port, save_verbose_log) ==
    [resolve |-> [host |-> host,
                  port |-> IF port # <<>> THEN port[1] ELSE IF is_https(original_url) THEN 443 ELSE 80,
                  ip |-> ip_address,
                  brackets |-> HasColon(ip_address)],
     verbose |-> save_verbose_log, silent |-> ~save_verbose_log,
     output |-> "nul", write_out |-> "%{http_code}", max_time |-> 10,
     insecure |-> ignore_tls_errors, url |-> original_url]

IsSuccessInclusive(status_code) == status_code >= 200 /\ status_code <= 300

IsSuccess(status_code) == status_code >= 200 /\ status_code < 300

\* perform_curl_request once curl.exe has ended (or could not be started)
PerformCurlResult(original_url, ip_address, out, elapsed) ==
    LET status_code_str == Trim(out.stdout)
        verbose_log_str == Trim(out.stderr)
        verbose_log     == IF verbose_log_str # <<>> THEN <<verbose_log_str>> ELSE <<>>
        base == [url |-> original_url, ip_address |-> <<ip_address>>, status_code |-> <<>>,
                 response_time_ms |-> <<elapsed>>, success |-> FALSE,
                 error_message |-> <<>>, verbose_log |-> verbose_log]
    IN  IF ~out.launched
        THEN [base EXCEPT !.error_message = <<Message("CurlLaunchFailed", 0, <<>>)>>,   \* "curl 実行失敗: {}"
                          !.verbose_log = <<>>]
        ELSE IF out.exit = 0 /\ status_code_str # <<>>
        THEN IF ParseU16(status_code_str).ok
             THEN LET status_code == ParseU16(status_code_str).val IN
                  [base EXCEPT !.status_code = <<status_code>>,
                               !.success = IsSuccess(status_code),
                               !.error_message = IF IsSuccess(status_code) THEN <<>>
                                                 ELSE <<Message("HttpStatus", status_code, <<>>)>>]  \* "HTTPステータス: {}"
             ELSE [base EXCEPT !.error_message =
                        <<Message("StatusParseFailed", 0, status_code_str)>>]            \* "ステータスコード解析失敗: {}"
        ELSE [base EXCEPT !.error_message =
                  << IF verbose_log_str # <<>>
                     THEN Message("ConnectionError", 0, verbose_log_str)                 \* "接続エラー: {}"
                     ELSE Message("ConnectionErrorExitCode", out.exit, <<>>) >>]         \* "接続エラー: curl 終了コード: {}"

IdleFuture == [st |-> "none", out |-> <<>>, res |-> <<>>]

\* ping_http_dual is called: validation, then either an error is returned or lookup_host is awaited
PingHttpDual ==
    /\ ppc = "idle"
    /\ \E url \in Urls, ignore_tls_errors \in BOOLEAN, save_verbose_log \in BOOLEAN :
          LET v == Validate(url) IN
          /\ call' = [url |-> url, ignore_tls_errors |-> ignore_tls_errors,
                      save_verbose_log |-> save_verbose_log]
          /\ warned' = ignore_tls_errors
          /\ IF v.ok
             THEN /\ parsed' = <<v.val>>
                  /\ lookups' = << [host |-> v.val.host, port |-> 80, state |-> "pending"] >>
                  /\ ppc' = "dns"
                  /\ pingRet' = <<>>
             ELSE /\ parsed' = <<>>
                  /\ lookups' = <<>>
                  /\ ppc' = "done"
                  /\ pingRet' = << Err(v.err) >>
    /\ dns_result' = EmptyResolution
    /\ fut' = [f \in Families |-> IdleFuture]
    /\ spawned' = <<>>
    /\ UNCHANGED seen
    /\ UNCHANGED envVars
    /\ UNCHANGED parseVars

\* lookup_host completes; resolve_dns returns and tokio::join! takes the two futures
ResolveDns ==
    /\ ppc = "dns"
    /\ \E lookup \in LookupOutcomes :
          /\ lookups' = [lookups EXCEPT ![1].state = IF lookup.ok THEN "ok" ELSE "failed"]
          /\ dns_result' = resolve_dns(lookup)
    /\ fut' = [f \in Families |-> [IdleFuture EXCEPT !.st = "pending"]]
    /\ ppc' = "join"
    /\ UNCHANGED <<call, parsed, warned, spawned, pingRet, seen>>
    /\ UNCHANGED envVars
    /\ UNCHANGED parseVars

Addresses(fam) ==
    IF fam = "ipv4" THEN dns_result.ipv4_addresses ELSE dns_result.ipv6_addresses

\* tokio::join! polls its futures in the order written, and a future returns to
\* join! only at a pending .await: connect_to_ip_with_host has none (curl.exe is
\* run with the blocking Command::output), so the second one is first polled
\* when the first one is complete
Polled(fam) == fam = "ipv4" \/ fut["ipv4"].st = "ready"

\* connect_to_ip_with_host up to the start of curl.exe
ConnectToIpWithHost(fam) ==
    /\ ppc = "join"
    /\ fut[fam].st = "pending"
    /\ Polled(fam)
    /\ IF Addresses(fam) = <<>>
       THEN /\ fut' = [fut EXCEPT ![fam] = [st |-> "ready", out |-> <<>>,
                                            res |-> <<NoAddressResult(call.url)>>]]
            /\ UNCHANGED spawned
       ELSE /\ fut' = [fut EXCEPT ![fam].st = "running"]
            /\ spawned' = Append(spawned,
                   [by |-> fam, program |-> "curl.exe",
                    args |-> ProbeArgs(call.url, Addresses(fam)[1], parsed[1].host,
                                       call.ignore_tls_errors, parsed[1].port,
                                       call.save_verbose_log)])
    /\ UNCHANGED <<ppc, call, parsed, warned, lookups, dns_result, pingRet, seen>>
    /\ UNCHANGED envVars
    /\ UNCHANGED parseVars

\* Command::output returns; perform_curl_request builds its result
CurlExit(fam) ==
    /\ ppc = "join"
    /\ fut[fam].st = "running"
    /\ \E out \in ProbeCurlOutcomes, elapsed \in ElapsedMs :
          fut' = [fut EXCEPT ![fam] =
                     [st |-> "ready", out |-> <<out>>,
                      res |-> <<PerformCurlResult(call.url, Addresses(fam)[1], out, elapsed)>>]]
    /\ UNCHANGED <<ppc, call, parsed, warned, lookups, dns_result, spawned, pingRet, seen>>
    /\ UNCHANGED envVars
    /\ UNCHANGED parseVars

DualResultBothFromIpv4(url, dns, ipv4_result, ipv6_result) ==
    [url |-> url, dns_resolution |-> dns, ipv4 |-> ipv4_result, ipv6 |-> ipv4_result]

HttpPingDualResult(url, dns, ipv4_result, ipv6_result) ==
    [url |-> url, dns_resolution |-> dns, ipv4 |-> ipv4_result, ipv6 |-> ipv6_result]

NoLatency(r) == [r EXCEPT !.response_time_ms = <<>>]

Other(fam) == IF fam = "ipv4" THEN "ipv6" ELSE "ipv4"

\* what one run showed about one family: its inputs, its result without the
\* latency, and whether the other family's probe succeeded
Observation(fam, ret) ==
    [fam |-> fam, url |-> call.url, addrs |-> Addresses(fam), out |-> fut[fam].out,
     result |-> NoLatency(ret[fam]), sibling_success |-> ret[Other(fam)].success]

\* both futures are complete: tokio::join! yields and ping_http_dual returns Ok
JoinReturn ==
    /\ ppc = "join"
    /\ \A f \in Families : fut[f].st = "ready"
    /\ LET ret == HttpPingDualResult(call.url, dns_result, fut["ipv4"].res[1], fut["ipv6"].res[1]) IN
       /\ pingRet' = << Ok(ret) >>
       /\ \/ UNCHANGED seen
          \/ /\ seen = <<>>
             /\ \E f \in Families : seen' = << Observation(f, ret) >>
    /\ ppc' = "done"
    /\ UNCHANGED <<call, parsed, warned, lookups, dns_result, fut, spawned>>
    /\ UNCHANGED envVars
    /\ UNCHANGED parseVars

\* no call of ping_http_dual is in progress
NoCall ==
    /\ ppc = "idle"
    /\ call = [url |-> <<>>, ignore_tls_errors |-> FALSE, save_verbose_log |-> FALSE]
    /\ parsed = <<>>
    /\ warned = FALSE
    /\ lookups = <<>>
    /\ dns_result = EmptyResolution
    /\ fut = [f \in Families |-> IdleFuture]
    /\ spawned = <<>>
    /\ pingRet = <<>>

\* the caller has taken the return value and the locals of the call are dropped;
\* the command can be invoked again
CallDropped ==
    /\ ppc = "done"
    /\ ppc' = "idle"
    /\ call' = [url |-> <<>>, ignore_tls_errors |-> FALSE, save_verbose_log |-> FALSE]
    /\ parsed' = <<>>
    /\ warned' = FALSE
    /\ lookups' = <<>>
    /\ dns_result' = EmptyResolution
    /\ fut' = [f \in Families |-> IdleFuture]
    /\ spawned' = <<>>
    /\ pingRet' = <<>>
    /\ UNCHANGED seen
    /\ UNCHANGED envVars
    /\ UNCHANGED parseVars

PingInit ==
    /\ NoCall
    /\ seen = <<>>


----------------------------------------------------------------------------
(* get_network_interfaces: the addresses of one adapter *)

\* the address literals among the inputs, with the value parse::<IpAddr> gives
\* (v4: four octets, v6: eight 16-bit segments)
IpLiterals ==
    { [text |-> <<"1", "9", "2", ".", "0", ".", "2", ".", "1", "0">>, ip |-> [v |-> 4, parts |-> <<192, 0, 2, 10>>]],
      [text |-> <<"1", "0", ".", "0", ".", "0", ".", "5">>, ip |-> [v |-> 4, parts |-> <<10, 0, 0, 5>>]],
      [text |-> <<"1", "2", "7", ".", "0", ".", "0", ".", "1">>, ip |-> [v |-> 4, parts |-> <<127, 0, 0, 1>>]],
      [text |-> <<"1", "6", "9", ".", "2", "5", "4", ".", "1", ".", "1">>, ip |-> [v |-> 4, parts |-> <<169, 254, 1, 1>>]],
      [text |-> <<"2", "2", "4", ".", "0", ".", "0", ".", "1">>, ip |-> [v |-> 4, parts |-> <<224, 0, 0, 1>>]],
      [text |-> <<"2", "0", "0", "1", ":", "d", "b", "8", ":", ":", "1">>, ip |-> [v |-> 6, parts |-> <<8193, 3512, 0, 0, 0, 0, 0, 1>>]],
      [text |-> <<"f", "e", "8", "0", ":", ":", "1">>, ip |-> [v |-> 6, parts |-> <<65152, 0, 0, 0, 0, 0, 0, 1>>]],
      [text |-> <<":", ":", "1">>, ip |-> [v |-> 6, parts |-> <<0, 0, 0, 0, 0, 0, 0, 1>>]],
      [text |-> <<"f", "f", "0", "2", ":", ":", "1">>, ip |-> [v |-> 6, parts |-> <<65282, 0, 0, 0, 0, 0, 0, 1>>]] }

\* str::parse::<IpAddr>; every other input text is not an address
ParseIpAddr(s) ==
    IF \E l \in IpLiterals : l.text = s
    THEN Ok((CHOOSE l \in IpLiterals : l.text = s).ip)
    ELSE Err("AddrParseError")

\* Ipv4Addr::is_private and the other std predicates
Ipv4IsPrivate(o) ==
    o[1] = 10 \/ (o[1] = 172 /\ o[2] \in 16..31) \/ (o[1] = 192 /\ o[2] = 168)
Ipv4IsLoopback(o) == o[1] = 127
Ipv4IsLinkLocal(o) == o[1] = 169 /\ o[2] = 254
Ipv4IsBroadcast(o) == o = <<255, 255, 255, 255>>
Ipv4IsMulticast(o) == o[1] \in 224..239
Ipv4IsUnspecified(o) == o = <<0, 0, 0, 0>>
Ipv6IsLoopback(g) == g = <<0, 0, 0, 0, 0, 0, 0, 1>>
Ipv6IsMulticast(g) == g[1] \div 256 = 255
Ipv6IsUnspecified(g) == g = <<0, 0, 0, 0, 0, 0, 0, 0>>

is_global_ipv4(ip) ==
    /\ ~Ipv4IsPrivate(ip)
    /\ ~Ipv4IsLoopback(ip)
    /\ ~Ipv4IsLinkLocal(ip)
    /\ ~Ipv4IsBroadcast(ip)
    /\ ~Ipv4IsMulticast(ip)
    /\ ~Ipv4IsUnspecified(ip)

is_global_ipv6(ip) ==
    ~Ipv6IsLoopback(ip) /\ ~Ipv6IsMulticast(ip) /\ ~Ipv6IsUnspecified(ip)

is_valid_ip_address(s) ==
    LET p == ParseIpAddr(s) IN
    IF p.ok
    THEN IF p.val.v = 4 THEN ~Ipv4IsLoopback(p.val.parts) ELSE ~Ipv6IsLoopback(p.val.parts)
    ELSE FALSE

RECURSIVE Analyze(_, _)
\* the loop of analyze_ip_addresses over what is left, acc holding the four flags
Analyze(ip_addresses, acc) ==
    IF ip_addresses = <<>> THEN acc
    ELSE LET p == ParseIpAddr(Head(ip_addresses)) IN
         Analyze(Tail(ip_addresses),
             IF ~p.ok THEN acc
             ELSE IF p.val.v = 4
                  THEN [acc EXCEPT !.has_ipv4 = TRUE,
                                   !.has_ipv4_global = @ \/ is_global_ipv4(p.val.parts)]
                  ELSE [acc EXCEPT !.has_ipv6 = TRUE,
                                   !.has_ipv6_global = @ \/ is_global_ipv6(p.val.parts)])

analyze_ip_addresses(ip_addresses) ==
    Analyze(ip_addresses, [has_ipv4 |-> FALSE, has_ipv6 |-> FALSE,
                           has_ipv4_global |-> FALSE, has_ipv6_global |-> FALSE])

RECURSIVE ValidAddresses(_)
\* the lines that are not empty and are valid addresses, in order
ValidAddresses(lines) ==
    IF lines = <<>> THEN <<>>
    ELSE IF Head(lines) # <<>> /\ is_valid_ip_address(Head(lines))
         THEN <<Head(lines)>> \o ValidAddresses(Tail(lines))
         ELSE ValidAddresses(Tail(lines))

\* the body of the loop of get_network_interfaces for one adapter: Some(adapter)
\* when the Get-NetIPAddress command could be run (its exit status is not looked at)
AdapterOf(name, ip_output) ==
    IF ip_output.launched
    THEN LET trimmed      == [i \in 1..Len(ip_output.lines) |-> Trim(ip_output.lines[i])]
             ip_addresses == ValidAddresses(trimmed)
             flags        == analyze_ip_addresses(ip_addresses)
         IN  << [name |-> name, ip_addresses |-> ip_addresses,
                 has_ipv4 |-> flags.has_ipv4, has_ipv6 |-> flags.has_ipv6,
                 has_ipv4_global |-> flags.has_ipv4_global,
                 has_ipv6_global |-> flags.has_ipv6_global] >>
    ELSE <<>>

----------------------------------------------------------------------------
(* text helpers of the DNS-server parsers *)

\* characters that take three bytes in UTF-8 (katakana), named by code point
Kana == { "U+30A2", "U+30A4", "U+30B5", "U+30BF", "U+30C0", "U+30C3", "U+30C8", "U+30CD", "U+30D0", "U+30D7", "U+30FC" }

\* char::len_utf8 for the characters of the inputs
ByteLen(c) == IF c \in Kana THEN 3 ELSE 1

RECURSIVE ByteCount(_)
\* str::len: the length in bytes
ByteCount(s) == IF s = <<>> THEN 0 ELSE ByteLen(Head(s)) + ByteCount(Tail(s))

\* char::to_lowercase for ASCII letters; kana have no case
LowerTable ==
    ("A" :> "a") @@ ("B" :> "b") @@ ("C" :> "c") @@ ("D" :> "d") @@ ("E" :> "e") @@ ("F" :> "f") @@ ("G" :> "g") @@ ("H" :> "h") @@ ("I" :> "i") @@ ("J" :> "j") @@ ("K" :> "k") @@ ("L" :> "l") @@ ("M" :> "m") @@
    ("N" :> "n") @@ ("O" :> "o") @@ ("P" :> "p") @@ ("Q" :> "q") @@ ("R" :> "r") @@ ("S" :> "s") @@ ("T" :> "t") @@ ("U" :> "u") @@ ("V" :> "v") @@ ("W" :> "w") @@ ("X" :> "x") @@ ("Y" :> "y") @@ ("Z" :> "z")

\* str::to_lowercase
to_lowercase(s) ==
    [i \in 1..Len(s) |-> IF s[i] \in DOMAIN LowerTable THEN LowerTable[s[i]] ELSE s[i]]

\* str::contains with a string pattern
ContainsStr(s, p) ==
    \E i \in 1..(Len(s) - Len(p) + 1) : SubSeq(s, i, i + Len(p) - 1) = p

\* str::find with a string pattern: Some(byte index of the first match)
Find(s, p) ==
    LET I == { i \in 1..(Len(s) - Len(p) + 1) : SubSeq(s, i, i + Len(p) - 1) = p } IN
    IF I = {} THEN <<>>
    ELSE << ByteCount(SubSeq(s, 1, (CHOOSE i \in I : \A j \in I : i <= j) - 1)) >>

\* &s[..b] and &s[b..] for a byte index b: Err("panic") when b is not on a
\* character boundary
SliceTo(s, b) ==
    IF \E k \in 0..Len(s) : ByteCount(SubSeq(s, 1, k)) = b
    THEN Ok(SubSeq(s, 1, CHOOSE k \in 0..Len(s) : ByteCount(SubSeq(s, 1, k)) = b))
    ELSE Err("panic")

SliceFrom(s, b) ==
    IF \E k \in 0..Len(s) : ByteCount(SubSeq(s, 1, k)) = b
    THEN Ok(SubSeq(s, 1 + (CHOOSE k \in 0..Len(s) : ByteCount(SubSeq(s, 1, k)) = b), Len(s)))
    ELSE Err("panic")

\* s.matches(c).count()
Count(s, c) == Cardinality({ i \in 1..Len(s) : s[i] = c })

HexDigits ==
    Digits \cup {"a", "b", "c", "d", "e", "f", "A", "B", "C", "D", "E", "F"}

is_ip_address_like(s) ==
    LET dot_count   == Count(s, ".")
        colon_count == Count(s, ":")
        has_hex     == \E i \in 1..Len(s) : s[i] \in HexDigits
        has_digit   == \E i \in 1..Len(s) : s[i] \in Digits
    IN  (dot_count >= 3 /\ has_digit) \/ (colon_count >= 2 /\ has_hex)

\* Vec::contains on a sequence
InVec(v, x) == \E i \in 1..Len(v) : v[i] = x

DnsServerInfo(interface_alias, ipv4, ipv6) ==
    [interface_alias |-> interface_alias, ipv4_dns_servers |-> ipv4, ipv6_dns_servers |-> ipv6]

----------------------------------------------------------------------------
(* get_dns_servers_from_powershell *)

\* an entry of current_adapter_map takes the address without a look at what it holds
PushAddress(entry, ip_addr) ==
    IF Count(ip_addr, ":") > 1 THEN [entry EXCEPT !.v6 = Append(@, ip_addr)]
    ELSE IF Contains(ip_addr, ".") THEN [entry EXCEPT !.v4 = Append(@, ip_addr)]
    ELSE entry

\* the index of the entry of adapter_name in the map, 0 when it has none
EntryIndex(map, adapter_name) ==
    IF \E i \in 1..Len(map) : map[i].name = adapter_name
    THEN CHOOSE i \in 1..Len(map) : map[i].name = adapter_name
    ELSE 0

\* one turn of the loop over the lines; the map is kept as the sequence of its
\* entries [name, v4, v6]
PowershellLine(map, raw) ==
    LET line    == Trim(raw)
        sep_pos == Find(line, <<" ", ":", " ">>)
    IN  IF line = <<>> \/ sep_pos = <<>> THEN map
        ELSE LET adapter_name == Trim(SliceTo(line, sep_pos[1]).val)
                 ip_addr      == Trim(SliceFrom(line, sep_pos[1] + 3).val)
                 at           == EntryIndex(map, adapter_name)
             IN  IF ~is_ip_address_like(ip_addr) THEN map
                 ELSE IF at = 0
                      THEN Append(map, PushAddress([name |-> adapter_name, v4 |-> <<>>, v6 |-> <<>>],
                                                   ip_addr))
                      ELSE [map EXCEPT ![at] = PushAddress(@, ip_addr)]

RECURSIVE PowershellLines(_, _)
PowershellLines(map, lines) ==
    IF lines = <<>> THEN map
    ELSE PowershellLines(PowershellLine(map, Head(lines)), Tail(lines))

\* the sequences that list every element of the set S once
Orders(S) ==
    { q \in [1..Cardinality(S) -> S] : \A x \in S : \E i \in 1..Cardinality(S) : q[i] = x }

\* every value get_dns_servers_from_powershell can return for an outcome of the
\* command: the map is iterated in an arbitrary order
get_dns_servers_from_powershell(out) ==
    IF ~out.launched THEN { [join |-> TRUE, res |-> Err("PowerShellLaunchFailed")] }
    ELSE IF out.exit # 0 THEN { [join |-> TRUE, res |-> Err("DnsQueryFailed")] }
    ELSE LET map  == PowershellLines(<<>>, out.lines)
             kept == { i \in 1..Len(map) : map[i].v4 # <<>> \/ map[i].v6 # <<>> }
         IN  IF kept = {} THEN { [join |-> TRUE, res |-> Err("NoDnsFromPowerShell")] }
             ELSE { [join |-> TRUE,
                     res  |-> Ok([k \in 1..Len(o) |->
                                    DnsServerInfo(map[o[k]].name, map[o[k]].v4, map[o[k]].v6)])] :
                       o \in Orders(kept) }

----------------------------------------------------------------------------
(* parse_dns_from_ipconfig *)

\* an address goes to its list unless the list has it
RecordAddress(st, addr) ==
    IF Count(addr, ":") > 1
    THEN IF InVec(st.current_ipv6_dns, addr) THEN st
         ELSE [st EXCEPT !.current_ipv6_dns = Append(@, addr)]
    ELSE IF Contains(addr, ".")
         THEN IF InVec(st.current_ipv4_dns, addr) THEN st
              ELSE [st EXCEPT !.current_ipv4_dns = Append(@, addr)]
         ELSE st

\* the section that ends is saved when it has an address
SaveAdapter(st) ==
    IF st.current_adapter # <<>> /\ (st.current_ipv4_dns # <<>> \/ st.current_ipv6_dns # <<>>)
    THEN Append(st.result, DnsServerInfo(st.current_adapter[1],
                                         st.current_ipv4_dns, st.current_ipv6_dns))
    ELSE st.result

AdapterJa == <<"U+30A2", "U+30C0", "U+30D7", "U+30BF", "U+30FC", " ">>
AdapterEn == <<"a", "d", "a", "p", "t", "e", "r", " ">>
DnsLabelJa == <<"d", "n", "s", " ", "U+30B5", "U+30FC", "U+30D0", "U+30FC">>
DnsLabelEn == <<"d", "n", "s", " ", "s", "e", "r", "v", "e", "r", "s">>

IsAdapterLine(line) ==
    /\ ~StartsWith(line, <<" ">>)
    /\ line # <<>>
    /\ \/ ContainsStr(to_lowercase(line), SubSeq(AdapterJa, 1, 5))
       \/ ContainsStr(to_lowercase(line), SubSeq(AdapterEn, 1, 7))
    /\ Contains(line, ":")

IsDnsLine(line) ==
    /\ \/ ContainsStr(to_lowercase(line), DnsLabelJa)
       \/ ContainsStr(to_lowercase(line), DnsLabelEn)
    /\ Contains(line, ":")

IsContinuationLine(line) ==
    /\ StartsWith(line, <<" ">>)
    /\ Trim(line) # <<>>
    /\ ~ContainsStr(line, <<" ", ".", " ">>)
    /\ is_ip_address_like(Trim(line))

\* the name kept for a section: Err("panic") when the slice is not on a
\* character boundary
ExtractedName(adapter_name) ==
    LET ja == Find(to_lowercase(adapter_name), AdapterJa)
        en == Find(to_lowercase(adapter_name), AdapterEn)
    IN  IF ja # <<>> THEN SliceFrom(adapter_name, ja[1] + 5)
        ELSE IF en # <<>> THEN SliceFrom(adapter_name, en[1] + 8)
        ELSE Ok(adapter_name)

\* one turn of the loop over the lines
IpconfigLine(st, line) ==
    IF st.panicked THEN st
    ELSE IF IsAdapterLine(line)
    THEN LET pos  == Find(line, <<":">>)[1]
             name == ExtractedName(Trim(SliceTo(line, pos).val))
         IN  IF name.ok
             THEN [st EXCEPT !.result = SaveAdapter(st),
                             !.current_adapter = <<name.val>>,
                             !.current_ipv4_dns = <<>>,
                             !.current_ipv6_dns = <<>>]
             ELSE [st EXCEPT !.panicked = TRUE]
    ELSE IF st.current_adapter # <<>> /\ IsDnsLine(line)
    THEN LET dns_part == Trim(SliceFrom(line, Find(line, <<":">>)[1] + 1).val) IN
         IF dns_part # <<>> /\ is_ip_address_like(dns_part)
         THEN RecordAddress(st, dns_part) ELSE st
    ELSE IF st.current_adapter # <<>> /\ IsContinuationLine(line)
    THEN RecordAddress(st, Trim(line))
    ELSE st

RECURSIVE IpconfigLines(_, _)
IpconfigLines(st, lines) ==
    IF lines = <<>> THEN st
    ELSE IpconfigLines(IpconfigLine(st, Head(lines)), Tail(lines))

\* parse_dns_from_ipconfig as seen through spawn_blocking: a panic is a JoinError
parse_dns_from_ipconfig(out) ==
    IF ~out.launched THEN [join |-> TRUE, res |-> Err("IpconfigLaunchFailed")]
    ELSE IF out.exit # 0 THEN [join |-> TRUE, res |-> Err("IpconfigFailed")]
    ELSE LET st == IpconfigLines([result |-> <<>>, current_adapter |-> <<>>,
                                  current_ipv4_dns |-> <<>>, current_ipv6_dns |-> <<>>,
                                  panicked |-> FALSE], out.lines)
         IN  IF st.panicked THEN [join |-> FALSE, res |-> Err("join")]
             ELSE [join |-> TRUE, res |-> Ok(SaveAdapter(st))]

----------------------------------------------------------------------------
(* the parsing functions, each applied to what its command printed *)

MaxIps == 2

\* lines Get-NetIPAddress can print for an adapter
AddressLines ==
    { <<"1", "9", "2", ".", "0", ".", "2", ".", "1", "0">>,
      <<"1", "0", ".", "0", ".", "0", ".", "5">>,
      <<"1", "2", "7", ".", "0", ".", "0", ".", "1">>,
      <<"1", "6", "9", ".", "2", "5", "4", ".", "1", ".", "1">>,
      <<"2", "2", "4", ".", "0", ".", "0", ".", "1">>,
      <<"2", "0", "0", "1", ":", "d", "b", "8", ":", ":", "1">>,
      <<"f", "e", "8", "0", ":", ":", "1">>,
      <<":", ":", "1">>,
      <<"f", "f", "0", "2", ":", ":", "1">>,
      <<"f", "e", "8", "0", ":", ":", "1", "%", "5">>,
      <<" ", "1", "0", ".", "0", ".", "0", ".", "5", " ">> }

\* the outcome of a command: not started, non-zero exit, or its lines of output
CommandOutcomes(lines) ==
    { [launched |-> FALSE, exit |-> 0, lines |-> <<>>],
      [launched |-> TRUE,  exit |-> 1, lines |-> <<>>] }
    \cup { [launched |-> TRUE, exit |-> 0, lines |-> l] : l \in lines }

AdapterInputs ==
    { [fn |-> "adapter", out |-> o] :
         o \in CommandOutcomes(UNION { [1..n -> AddressLines] : n \in 0..MaxIps }) }

MaxLines == 3

\* lines ipconfig /all can print
IpconfigLinePool ==
    { <<"E", "t", "h", "e", "r", "n", "e", "t", " ", "a", "d", "a", "p", "t", "e", "r", " ", "e", "0", ":">>,
      <<"U+30A4", "U+30FC", "U+30B5", "U+30CD", "U+30C3", "U+30C8", " ", "U+30A2", "U+30C0", "U+30D7", "U+30BF", "U+30FC", " ", "e", "0", ":">>,
      <<" ", " ", " ", "D", "N", "S", " ", "S", "e", "r", "v", "e", "r", "s", " ", ".", " ", ".", " ", ".", " ", ":", " ", "1", "9", "2", ".", "0", ".", "2", ".", "5", "3">>,
      <<" ", " ", " ", " ", " ", " ", "1", "9", "2", ".", "0", ".", "2", ".", "5", "3">>,
      <<" ", " ", " ", " ", " ", " ", "2", "0", "0", "1", ":", "d", "b", "8", ":", ":", "5", "3">>,
      <<" ", " ", " ", "D", "e", "f", "a", "u", "l", "t", " ", "G", "a", "t", "e", "w", "a", "y", " ", ".", " ", ".", " ", ".", " ", ":", " ", "f", "e", "8", "0", ":", ":", "1", "%", "5">>,
      <<" ", " ", " ", " ", " ", " ", "1", "9", "2", ".", "1", "6", "8", ".", "1", ".", "1">>,
      <<>> }

\* lines the PowerShell pipeline can print
PowershellLinePool ==
    { <<"e", "0", " ", ":", " ", "1", "9", "2", ".", "0", ".", "2", ".", "5", "3">>,
      <<"e", "0", " ", ":", " ", "2", "0", "0", "1", ":", "d", "b", "8", ":", ":", "5", "3">>,
      <<"e", "1", " ", ":", " ", "1", "9", "2", ".", "0", ".", "2", ".", "5", "3">>,
      <<"e", "0", " ", ":", " ", "n", "/", "a">>,
      <<>> }

IpconfigInputs ==
    { [fn |-> "ipconfig", out |-> o] :
         o \in CommandOutcomes(UNION { [1..n -> IpconfigLinePool] : n \in 0..MaxLines }) }

PowershellInputs ==
    { [fn |-> "powershell", out |-> o] :
         o \in CommandOutcomes(UNION { [1..n -> PowershellLinePool] : n \in 0..MaxLines }) }

ParseInputs == AdapterInputs \cup IpconfigInputs \cup PowershellInputs

\* no parsing function is being looked at
NoInput ==
    /\ input = [fn |-> "none", out |-> [launched |-> FALSE, exit |-> 0, lines |-> <<>>]]
    /\ output = <<>>

\* the addresses of the adapter "Ethernet" are read and analysed
AnalyzeAdapter ==
    /\ input.fn = "adapter"
    /\ output = <<>>
    /\ output' = << AdapterOf(<<"E", "t", "h", "e", "r", "n", "e", "t">>, input.out) >>
    /\ UNCHANGED input
    /\ UNCHANGED <<envVars, pingVars>>

\* the output of ipconfig /all is parsed
ParseDnsFromIpconfig ==
    /\ input.fn = "ipconfig"
    /\ output = <<>>
    /\ output' = << parse_dns_from_ipconfig(input.out) >>
    /\ UNCHANGED input
    /\ UNCHANGED <<envVars, pingVars>>

\* the output of the PowerShell pipeline is parsed
GetDnsServersFromPowershell ==
    /\ input.fn = "powershell"
    /\ output = <<>>
    /\ \E r \in get_dns_servers_from_powershell(input.out) : output' = <<r>>
    /\ UNCHANGED input
    /\ UNCHANGED <<envVars, pingVars>>

EnvInit ==
    /\ epc = "adapters"
    /\ result = InitialResult
    /\ fpc = "idle"
    /\ attempts = <<>>
    /\ fetchRet = <<>>
    /\ dpc = "idle"
    /\ dnsInv = <<>>
    /\ strategies = <<>>
    /\ steps = <<>>
    /\ envRet = <<>>

vars == <<envVars, pingVars, parseVars>>

Init == EnvInit /\ PingInit /\ NoInput

Next ==
    \/ GetNetworkInterfaces
    \/ FetchFirstAttempt
    \/ FetchFallbackAttempt
    \/ CheckDnsResolution
    \/ IpconfigDone
    \/ PowershellDone
    \/ DnsServersTimeout

Spec == Init /\ [][Next]_vars

PingNext ==
    \/ PingHttpDual
    \/ ResolveDns
    \/ \E fam \in Families : ConnectToIpWithHost(fam)
    \/ \E fam \in Families : CurlExit(fam)
    \/ JoinReturn
    \/ CallDropped

PingSpec == Init /\ [][PingNext]_vars

ParseInit ==
    /\ EnvInit
    /\ PingInit
    /\ input \in ParseInputs
    /\ output = <<>>

ParseNext ==
    \/ AnalyzeAdapter
    \/ ParseDnsFromIpconfig
    \/ GetDnsServersFromPowershell

ParseSpec == ParseInit /\ [][ParseNext]_vars

----------------------------------------------------------------------------
(* Properties of environment_check and fetch_global_ip_info *)

Returned == envRet # <<>>

HasMessage(r, text) == \E i \in 1..Len(r.error_messages) : r.error_messages[i].text = text

\* C1: in every result environment_check returns, internet_available is true
\* exactly when (ipv4_connectivity or ipv6_connectivity) and dns_resolution,
\* whatever the sub-steps did (DNS-server inventory failure and timeout included).
C1_InternetAvailableIff ==
    Returned =>
        /\ envRet[1].ok
        /\ LET r == envRet[1].val IN
           r.internet_available
             <=> ((r.ipv4_connectivity \/ r.ipv6_connectivity) /\ r.dns_resolution)

\* v6 egress works, the control lookup fails, the inventory timed out: verdict false
C1_Witness ==
    /\ Returned
    /\ dnsInv[1].timeout
    /\ envRet[1].val.ipv6_connectivity
    /\ ~envRet[1].val.ipv4_connectivity
    /\ ~envRet[1].val.dns_resolution
    /\ ~envRet[1].val.internet_available

\* C2: in every returned result, v4 up and v6 down means no v6-egress failure
\* message; v4 down means a v4-egress failure message is there, and when v6 is
\* down too its failure message is there as well.
C2_ErrorSuppression ==
    Returned =>
        LET r == envRet[1].val IN
        /\ (r.ipv4_connectivity /\ ~r.ipv6_connectivity) => ~HasMessage(r, "Ipv6GlobalIpFailed")
        /\ ~r.ipv4_connectivity => HasMessage(r, "Ipv4GlobalIpFailed")
        /\ (~r.ipv4_connectivity /\ ~r.ipv6_connectivity) => HasMessage(r, "Ipv6GlobalIpFailed")

\* v4 up, v6 down and the v6 failure kept out of the list
C2_Witness ==
    /\ Returned
    /\ envRet[1].val.ipv4_connectivity
    /\ ~envRet[1].val.ipv6_connectivity
    /\ ~HasMessage(envRet[1].val, "Ipv6GlobalIpFailed")
    /\ fetchRet = << Err("BothAttemptsFailed") >>

FirstAttemptFailed ==
    \/ ~attempts[1].out.launched
    \/ attempts[1].out.exit # 0
    \/ ~ParseIpResponse(attempts[1].out.stdout).ok

\* C9 as stated: the first attempt verifies TLS; after any failure of it (not
\* launched, non-zero exit, body not the expected JSON) exactly one further
\* attempt with -k is made; never more than two attempts, never a -k attempt
\* after a successful first attempt.
C9_RetryOnAnyFailure ==
    fpc = "returned" =>
        /\ ~attempts[1].args.insecure
        /\ Len(attempts) <= 2
        /\ FirstAttemptFailed => (Len(attempts) = 2 /\ attempts[2].args.insecure)
        /\ ~FirstAttemptFailed => Len(attempts) = 1

\* C9 as amended: the -k attempt is made exactly when the first attempt was
\* launched and exited non-zero; a first attempt that cannot be launched, or
\* that exits zero with a body that is not the expected JSON, makes the call
\* return an error after that single attempt.
C9_RetryOnNonZeroExit ==
    fpc = "returned" =>
        /\ ~attempts[1].args.insecure
        /\ Len(attempts) \in {1, 2}
        /\ Len(attempts) = 2 <=> (attempts[1].out.launched /\ attempts[1].out.exit # 0)
        /\ Len(attempts) = 2 => attempts[2].args.insecure
        /\ (FirstAttemptFailed /\ Len(attempts) = 1) => ~fetchRet[1].ok
        /\ ~FirstAttemptFailed => fetchRet[1].ok

\* the verified attempt exits non-zero and the -k attempt gets the JSON
C9_Witness ==
    /\ fpc = "returned"
    /\ Len(attempts) = 2
    /\ attempts[1].out.exit # 0
    /\ attempts[2].args.insecure
    /\ fetchRet[1].ok

StepIndex(text) ==
    CASE text = "AdaptersFailed"     -> 1
      [] text = "Ipv4GlobalIpFailed" -> 2
      [] text = "Ipv6GlobalIpFailed" -> 3
      [] text = "DnsCheckFailed"     -> 4
      [] text \in {"DnsServersFailed", "DnsServersTimeout"} -> 5

TimeoutWarnings(r) ==
    Cardinality({ i \in 1..Len(r.error_messages) : r.error_messages[i].text = "DnsServersTimeout" })

\* C10: environment_check never returns an error; until it is done a next step
\* is always possible, and when it is done all five steps ran in order, the
\* messages are in step order, and an inventory timeout left exactly one
\* timeout warning and an empty dns_servers.
C10_NeverFails ==
    /\ Returned => envRet[1].ok
    /\ epc # "done" => ENABLED Next
    /\ epc = "done" =>
         /\ Returned
         /\ steps = <<"adapters", "ipv4", "ipv6", "dns", "dns_servers">>
         /\ LET m == envRet[1].val.error_messages IN
            \A i, j \in 1..Len(m) : i < j => StepIndex(m[i].text) < StepIndex(m[j].text)
         /\ dnsInv[1].timeout =>
               /\ envRet[1].val.dns_servers = <<>>
               /\ TimeoutWarnings(envRet[1].val) = 1
         /\ ~dnsInv[1].timeout => TimeoutWarnings(envRet[1].val) = 0

\* adapters, both egress checks and the inventory (by timeout) all failed
C10_Witness ==
    /\ Returned
    /\ dnsInv[1].timeout
    /\ Len(envRet[1].val.error_messages) = 4
    /\ ~envRet[1].val.dns_resolution

----------------------------------------------------------------------------
(* Properties of ping_http_dual and the prober *)

\* the HttpPingResults that exist in the current state
ProducedResults ==
    { fut[f].res[1] : f \in { g \in Families : fut[g].res # <<>> } }
    \cup (IF pingRet # <<>> /\ pingRet[1].ok
          THEN { pingRet[1].val.ipv4, pingRet[1].val.ipv6 } ELSE {})

\* C3: every HttpPingResult the prober produces, on every path, has success
\* true exactly when status_code is present and 200 <= status_code < 300.
C3_SuccessIffStatus2xx ==
    \A r \in ProducedResults :
        r.success <=> (r.status_code # <<>> /\ r.status_code[1] >= 200 /\ r.status_code[1] < 300)

\* one run with the two codes next to the upper end of the range
C3_Witness ==
    /\ ppc = "done"
    /\ pingRet[1].ok
    /\ pingRet[1].val.ipv4.status_code = <<299>>
    /\ pingRet[1].val.ipv4.success
    /\ pingRet[1].val.ipv6.status_code = <<300>>
    /\ ~pingRet[1].val.ipv6.success

MessageText(r) == IF r.error_message = <<>> THEN "" ELSE r.error_message[1].text

\* C4: for every valid URL, an empty IPv4 list gives the "no IPv4 address"
\* message in HttpPingDualResult.ipv4 and an empty IPv6 list gives the
\* "no IPv6 address" message in HttpPingDualResult.ipv6.
C4_MessageNamesFamily ==
    (ppc = "done" /\ pingRet[1].ok) =>
        /\ dns_result.ipv4_addresses = <<>> => MessageText(pingRet[1].val.ipv4) = "NoIpv4Address"
        /\ dns_result.ipv6_addresses = <<>> => MessageText(pingRet[1].val.ipv6) = "NoIpv6Address"

LaunchedFor(fam) == { i \in 1..Len(spawned) : spawned[i].by = fam }

NoAddressForm(r) ==
    /\ ~r.success
    /\ r.status_code = <<>>
    /\ r.ip_address = <<>>
    /\ r.error_message # <<>>

\* C5: a prober given an empty address list starts no curl.exe and its result
\* has success false, no status code, no IP address and an error message; a
\* failed lookup makes ping_http_dual return Ok with both family results of
\* that form.
C5_EmptyListNoProbe ==
    /\ \A f \in Families :
          (fut[f].st = "ready" /\ Addresses(f) = <<>>) =>
              /\ LaunchedFor(f) = {}
              /\ NoAddressForm(fut[f].res[1])
    /\ (ppc = "done" /\ lookups # <<>> /\ lookups[1].state = "failed") =>
          /\ pingRet[1].ok
          /\ pingRet[1].val.dns_resolution = EmptyResolution
          /\ NoAddressForm(pingRet[1].val.ipv4)
          /\ NoAddressForm(pingRet[1].val.ipv6)
          /\ spawned = <<>>

\* the lookup failed and the call returned Ok
C5_Witness ==
    /\ ppc = "done"
    /\ lookups # <<>>
    /\ lookups[1].state = "failed"
    /\ pingRet[1].ok
    /\ spawned = <<>>

\* the URL is one the input rules refuse
Refused(url) ==
    \/ Len(url) = 0
    \/ Len(url) > 2048
    \/ ~StartsWith(url, HttpPrefix) /\ ~StartsWith(url, HttpsPrefix)
    \/ /\ StartsWith(url, HttpPrefix) \/ StartsWith(url, HttpsPrefix)
       /\ \/ Len(HostText(url)) = 0
          \/ Len(HostText(url)) > 255
          \/ \E i \in 1..Len(HostText(url)) :
                HostText(url)[i] \in {"$", Grave, "|", "&", ";", ">", "<", "(", ")"}

\* C6: a call whose URL is empty, longer than 2048, without http:// or
\* https://, or whose host name is empty, longer than 255 or has a shell
\* metacharacter returns an error, and in that run no lookup is issued and no
\* curl.exe is started.
C6_RejectedBeforeIo ==
    (ppc # "idle" /\ Refused(call.url)) =>
        /\ ppc = "done"
        /\ ~pingRet[1].ok
        /\ lookups = <<>>
        /\ spawned = <<>>

\* the host name carries a metacharacter the URL parser lets through
C6_Witness ==
    /\ ppc = "done"
    /\ call.url = HttpPrefix \o <<"a", "$">>
    /\ pingRet = << Err("HostBadChars") >>
    /\ lookups = <<>>

ProbeIpv6 == ConnectToIpWithHost("ipv6")

\* C7: the two probes run concurrently: while the IPv4 curl.exe is running
\* and IPv6 has an address, the IPv6 probe can be started.
C7_ProbesOverlap ==
    (ppc = "join" /\ fut["ipv4"].st = "running" /\ fut["ipv6"].st = "pending"
        /\ dns_result.ipv6_addresses # <<>>)
    => ENABLED ProbeIpv6

SameInputs(f) ==
    /\ seen[1].fam = f
    /\ seen[1].url = call.url
    /\ seen[1].addrs = Addresses(f)
    /\ seen[1].out = fut[f].out

\* C8: once validation has passed the call returns a result for both families,
\* and a family's result without its latency is the same in any two runs with
\* the same URL, the same address list and the same probe outcome for that
\* family, whatever the other family's list and outcome are.
C8_FamiliesIndependent ==
    ppc = "done" =>
        /\ lookups # <<>> =>
              /\ pingRet[1].ok
              /\ \A f \in Families : fut[f].res # <<>> /\ pingRet[1].val[f] = fut[f].res[1]
        /\ (pingRet[1].ok /\ seen # <<>>) =>
              \A f \in Families : SameInputs(f) => NoLatency(pingRet[1].val[f]) = seen[1].result

\* the same IPv6 probe in two runs, next to an IPv4 probe that succeeded in
\* one run and found no address in the other
C8_Witness ==
    /\ ppc = "done"
    /\ pingRet[1].ok
    /\ seen # <<>>
    /\ SameInputs("ipv6")
    /\ fut["ipv6"].out # <<>>
    /\ seen[1].sibling_success
    /\ dns_result.ipv4_addresses = <<>>

----------------------------------------------------------------------------
(* Properties of environment_check: global-IP info and DNS-server discovery *)

\* C11 as stated: in every returned result, a present ipv4_global_ip or
\* ipv6_global_ip means internet_available is true (global-IP info is fetched
\* last and only after a true verdict).
C11_GlobalIpOnlyIfAvailable ==
    Returned =>
        LET r == envRet[1].val IN
        (r.ipv4_global_ip # <<>> \/ r.ipv6_global_ip # <<>>) => r.internet_available

\* C11 as amended: global-IP info is what the egress check of its family
\* returned, in steps two and three, before the DNS check: a family's info is
\* present exactly when that family's connectivity flag is true, it is there
\* before the verdict is computed, and present info means internet_available
\* only when dns_resolution is true as well.
C11_GlobalIpFromEgressCheck ==
    /\ result.ipv4_global_ip # <<>> <=> result.ipv4_connectivity
    /\ result.ipv6_global_ip # <<>> <=> result.ipv6_connectivity
    /\ result.ipv4_global_ip # <<>> => Contains(steps, "ipv4")
    /\ result.ipv6_global_ip # <<>> => Contains(steps, "ipv6")
    /\ epc \in {"dns", "dns_servers"} =>
          /\ ~result.internet_available
          /\ fpc = "returned"
    /\ Returned =>
          LET r == envRet[1].val IN
          /\ r.ipv4_global_ip = result.ipv4_global_ip
          /\ r.ipv6_global_ip = result.ipv6_global_ip
          /\ (r.ipv4_global_ip # <<>> \/ r.ipv6_global_ip # <<>>)
                => (r.internet_available <=> r.dns_resolution)

\* the v4 egress check gave the info, the control lookup failed
C11_Witness ==
    /\ Returned
    /\ envRet[1].val.ipv4_global_ip # <<>>
    /\ ~envRet[1].val.dns_resolution
    /\ ~envRet[1].val.internet_available

Tasks == [i \in 1..Len(strategies) |-> strategies[i].task]

\* the ipconfig task has ended with this outcome
IpconfigEnded == strategies # <<>> /\ strategies[1].out # <<>>

IpconfigFoundInterfaces ==
    /\ IpconfigEnded
    /\ strategies[1].out[1].join
    /\ strategies[1].out[1].res.ok
    /\ strategies[1].out[1].res.val # <<>>

\* C15: the PowerShell strategy is started at most once, only after the
\* ipconfig strategy has ended and only when that one gave no interface; when
\* ipconfig gives at least one interface, PowerShell is never started and the
\* operation's result is exactly ipconfig's list.
C15_FallbackOnlyWhenEmpty ==
    /\ Tasks \in { <<>>, <<"ipconfig">>, <<"ipconfig", "powershell">> }
    /\ Contains(Tasks, "powershell") => (IpconfigEnded /\ ~IpconfigFoundInterfaces)
    /\ IpconfigFoundInterfaces =>
          /\ Tasks = <<"ipconfig">>
          /\ dnsInv = << [timeout |-> FALSE, res |-> strategies[1].out[1].res] >>
          /\ Returned
          /\ envRet[1].val.dns_servers = strategies[1].out[1].res.val

\* ipconfig found an interface and the call returned its list
C15_Witness ==
    /\ Returned
    /\ IpconfigFoundInterfaces
    /\ Tasks = <<"ipconfig">>
    /\ envRet[1].val.dns_servers # <<>>

\* the ipconfig command could not be started or exited non-zero
IpconfigCommandFailed ==
    /\ IpconfigEnded
    /\ strategies[1].out[1].join
    /\ ~strategies[1].out[1].res.ok

\* C16 as stated: when the ipconfig command cannot be started or exits
\* non-zero, DNS-server discovery returns an error, which environment_check
\* records in error_messages, and no server list; only output that does not
\* match the expected shape gives zero results and starts the fallback.
C16_CommandFailurePropagates ==
    /\ (IpconfigCommandFailed /\ Returned) =>
          /\ ~dnsInv[1].res.ok
          /\ envRet[1].val.dns_servers = <<>>
          /\ \/ HasMessage(envRet[1].val, "DnsServersFailed")
             \/ HasMessage(envRet[1].val, "DnsServersTimeout")
    /\ IpconfigCommandFailed => Tasks = <<"ipconfig">>

\* C16 as amended: parse_dns_from_ipconfig returns the command's failure to
\* get_dns_servers_async, which drops it and starts the PowerShell strategy, as
\* it does for output with zero interfaces; the operation then returns what
\* the PowerShell strategy returns (a server list, or that strategy's error,
\* which environment_check records), unless the timeout comes first.
C16_CommandFailureFallsBack ==
    /\ (IpconfigEnded /\ ~IpconfigFoundInterfaces) => Tasks = <<"ipconfig", "powershell">>
    /\ (IpconfigCommandFailed /\ Returned /\ ~dnsInv[1].timeout) =>
          /\ strategies[2].out # <<>>
          /\ dnsInv[1].res = (IF strategies[2].out[1].join THEN strategies[2].out[1].res
                              ELSE Err("DnsThreadError"))
          /\ dnsInv[1].res.ok => envRet[1].val.dns_servers = dnsInv[1].res.val
          /\ ~dnsInv[1].res.ok =>
                /\ envRet[1].val.dns_servers = <<>>
                /\ envRet[1].val.error_messages[Len(envRet[1].val.error_messages)]
                      = [text |-> "DnsServersFailed", detail |-> dnsInv[1].res.err]
                /\ dnsInv[1].res.err # strategies[1].out[1].res.err

\* ipconfig exited non-zero and the call returned the PowerShell strategy's list
C16_Witness ==
    /\ Returned
    /\ IpconfigCommandFailed
    /\ strategies[1].out[1].res.err = "IpconfigFailed"
    /\ dnsInv[1].res.ok
    /\ envRet[1].val.dns_servers # <<>>

----------------------------------------------------------------------------
(* Properties of the parsing functions *)

\* the addresses an adapter record lists, parsed
ListedIps(adapter) ==
    { ParseIpAddr(adapter.ip_addresses[i]).val : i \in 1..Len(adapter.ip_addresses) }

Ipv6IsLinkLocal(g) == g[1] \in 65152..65215

\* C12: an adapter whose only IPv6 address is link-local (fe80::/10) has
\* has_ipv6 true and has_ipv6_global false.
C12_LinkLocalNotGlobal ==
    (input.fn = "adapter" /\ output # <<>> /\ output[1] # <<>>) =>
        LET adapter == output[1][1]
            v6      == { ip \in ListedIps(adapter) : ip.v = 6 }
        IN  (v6 # {} /\ \A ip \in v6 : Ipv6IsLinkLocal(ip.parts)) =>
                (adapter.has_ipv6 /\ ~adapter.has_ipv6_global)

\* the DnsServerInfo records a DNS-server discovery strategy returned
Discovered ==
    IF input.fn \in {"ipconfig", "powershell"} /\ output # <<>> /\ output[1].res.ok
    THEN { output[1].res.val[i] : i \in 1..Len(output[1].res.val) }
    ELSE {}

NoDuplicates(list) == \A i, j \in 1..Len(list) : list[i] = list[j] => i = j

\* C13: every DnsServerInfo record returned by DNS-server discovery, by either
\* strategy, has an address in one of its two lists and holds no address twice
\* in its IPv4 list nor in its IPv6 list.
C13_NonEmptyDeduplicated ==
    \A info \in Discovered :
        /\ info.ipv4_dns_servers # <<>> \/ info.ipv6_dns_servers # <<>>
        /\ NoDuplicates(info.ipv4_dns_servers)
        /\ NoDuplicates(info.ipv6_dns_servers)

\* the text after the first colon of a line, trimmed
AfterColon(line) == Trim(SubSeq(line, First(line, {":"}) + 1, Len(line)))

\* line i gives addr under a "DNS servers" label of its section: it is the
\* label line, or an indented line with a label line before it and no adapter
\* line in between
UnderDnsLabel(lines, i, addr) ==
    \/ IsDnsLine(lines[i]) /\ ~IsAdapterLine(lines[i]) /\ AfterColon(lines[i]) = addr
    \/ /\ StartsWith(lines[i], <<" ">>)
       /\ Trim(lines[i]) = addr
       /\ \E j \in 1..(i - 1) :
             IsDnsLine(lines[j]) /\ \A k \in j..i : ~IsAdapterLine(lines[k])

\* C14: the verbose-dump parser records an address only from a "DNS servers"
\* label line or from an indented line after one in the same section; an
\* indented address-like line before any label is never recorded.
C14_OnlyUnderDnsLabel ==
    input.fn = "ipconfig" =>
        \A info \in Discovered :
            \A addr \in { info.ipv4_dns_servers[i] : i \in 1..Len(info.ipv4_dns_servers) }
                  \cup { info.ipv6_dns_servers[i] : i \in 1..Len(info.ipv6_dns_servers) } :
                \E i \in 1..Len(input.out.lines) : UnderDnsLabel(input.out.lines, i, addr)
====
